---- MODULE Spec2Model ----
(***************************************************************************)
(* Model of the inline Google search bot (src/main.py).                    *)
(*                                                                         *)
(* State: the two SQLite tables (tokens, settings), the Redis keyspace     *)
(* with its expiry times, the per-user FSM state kept by the dispatcher,   *)
(* the clock, the log of the calls of cache_set, the calls of              *)
(* update_settings that have read and not yet written, and a record of     *)
(* what the handler of the most recent update did.  What the provider does *)
(* when called, and whether the bot can message the user directly, are     *)
(* inputs of each handler run.  One action per handler; a message is       *)
(* routed to the first registered handler whose filter accepts it.         *)
(*                                                                         *)
(* Texts that the code inspects (query texts, message texts, API keys,     *)
(* Redis keys) are sequences of one-character strings, so that strip(),    *)
(* lower(), isdigit() and TOKEN_REGEX are computed character by character. *)
(* Opaque texts (titles, links, thumbnails) are plain strings.             *)
(*                                                                         *)
(* The handlers are modelled as the dispatcher would run them once         *)
(* registered.  (Line 252 names SettingsStates.waiting_gl, which the class *)
(* at lines 48-49 does not define; the model treats that filter as one     *)
(* that accepts no message.)                                               *)
(***************************************************************************)
EXTENDS Integers, Sequences, FiniteSets, TLC

\* ---------------------------------------------------------------- bounds
\* Calls of cache_set in a behaviour of CacheSpec.
MaxPuts == 2
\* Users of the bot.
NUsers == 2
\* The clock of Spec runs over the instants d*(TTL+1) for d in 0..MaxDays.
MaxDays == 1
\* How many calls of update_settings may be between read and write at once.
MaxPending == 2

Users == 1..NUsers

\* ------------------------------------------------------- Python values
\* None among values that are texts (sequences of characters).
PyNone == <<"None">>
\* None among opaque strings (a thumbnail that is absent).
NoThumb == "<None>"

\* Truth value of a text-or-None: None and the empty string are falsy.
Truthy(x) == x # PyNone /\ x # <<>>

UpperChars ==
  <<"A","B","C","D","E","F","G","H","I","J","K","L","M",
    "N","O","P","Q","R","S","T","U","V","W","X","Y","Z">>
LowerChars ==
  <<"a","b","c","d","e","f","g","h","i","j","k","l","m",
    "n","o","p","q","r","s","t","u","v","w","x","y","z">>
DigitChars == <<"0","1","2","3","4","5","6","7","8","9">>
WhiteChars == {" ", "\t", "\n"}

Range(s) == {s[i] : i \in DOMAIN s}

IndexIn(c, s) == CHOOSE i \in DOMAIN s : s[i] = c

\* str.lower() on one character: A-Z map to a-z; the other characters of the
\* model's alphabet (digits, punctuation, lower-case letters, "ß") are kept.
LowerChar(c) == IF c \in Range(UpperChars) THEN LowerChars[IndexIn(c, UpperChars)] ELSE c

\* str.lower()
PyLower(s) == [i \in DOMAIN s |-> LowerChar(s[i])]

RECURSIVE LStrip(_)
LStrip(s) == IF s # <<>> /\ Head(s) \in WhiteChars THEN LStrip(Tail(s)) ELSE s

RECURSIVE RStrip(_)
RStrip(s) ==
  IF s # <<>> /\ s[Len(s)] \in WhiteChars THEN RStrip(SubSeq(s, 1, Len(s) - 1)) ELSE s

\* str.strip()
PyStrip(s) == RStrip(LStrip(s))

\* str.isdigit(): non-empty and every character a digit
PyIsDigit(s) == s # <<>> /\ \A i \in DOMAIN s : s[i] \in Range(DigitChars)

RECURSIVE PyInt(_)
\* int() of a digit string
PyInt(s) ==
  IF s = <<>> THEN 0
  ELSE 10 * PyInt(SubSeq(s, 1, Len(s) - 1)) + (IndexIn(s[Len(s)], DigitChars) - 1)

\* list[:n] for n >= 0
Take(s, n) == SubSeq(s, 1, IF n < Len(s) THEN n ELSE Len(s))

\* dict[key]: the lookup raises KeyError when the key is missing
HasKey(d, k) == k \in DOMAIN d

\* dict.get(key, default)
DictGet(d, k, default) == IF k \in DOMAIN d THEN d[k] ELSE default

\* An optional value: what a function returning "X or None" returns.
Some(v) == [isNone |-> FALSE, val |-> v]
Nothing == [isNone |-> TRUE, val |-> <<>>]

\* ------------------------------------------------------ SQLite tables
\* A table is its set of rows.  Both tables declare user_id PRIMARY KEY.

\* INSERT OR REPLACE: rows in conflict on the primary key are deleted, then
\* the new row is inserted.
InsertOrReplace(table, row) == {r \in table : r.user_id # row.user_id} \cup {row}

\* SELECT ... WHERE user_id = ? followed by fetchone(): a row, or None.
FetchOne(table, user_id) ==
  LET rows == {r \in table : r.user_id = user_id}
  IN  IF rows = {} THEN Nothing ELSE Some(CHOOSE r \in rows : TRUE)

\* save_token as it would be with a plain INSERT into a table without
\* primary key: an earlier row of the user stays.
save_token_plain_insert(tokens_t, user_id, key) ==
  tokens_t \cup {[user_id |-> user_id, key |-> key]}

\* save_token as it would be if the statement also set the key of every
\* other row (an UPDATE without WHERE before the insert).
save_token_for_everyone(tokens_t, user_id, key) ==
  {[user_id |-> r.user_id, key |-> key] : r \in tokens_t}
    \cup {[user_id |-> user_id, key |-> key]}

\* save_token: the table after the statement
save_token(tokens_t, user_id, key) ==
  InsertOrReplace(tokens_t, [user_id |-> user_id, key |-> key])

\* fetch_token: row[0] if row else None
fetch_token(tokens_t, user_id) ==
  LET row == FetchOne(tokens_t, user_id)
  IN  IF row.isNone THEN PyNone ELSE row.val.key

\* The defaults fetch_settings returns when the user has no row.
DefaultShowLogo == TRUE
DefaultLim == 5
DefaultGl == <<>>

\* fetch_settings: a dict with the keys show_logo, lim, gl
fetch_settings(settings_t, user_id) ==
  LET row == FetchOne(settings_t, user_id)
  IN  IF ~row.isNone
      THEN [show_logo |-> row.val.show_logo # 0,
            lim       |-> row.val.lim,
            gl        |-> IF Truthy(row.val.gl) THEN row.val.gl ELSE <<>>]
      ELSE [show_logo |-> DefaultShowLogo, lim |-> DefaultLim, gl |-> DefaultGl]

\* The keyword-only parameters of update_settings.
UpdateSettingsParams == {"show_logo", "lim", "gl"}

\* The write of update_settings (lines 116-126): the values merged from the
\* keywords passed and from cur, the settings read at line 115, then
\* INSERT OR REPLACE.
update_settings_write(settings_t, user_id, kwargs, cur) ==
  LET show_logo_v == IF HasKey(kwargs, "show_logo")
                     THEN (IF kwargs.show_logo THEN 1 ELSE 0)
                     ELSE (IF cur.show_logo THEN 1 ELSE 0)
      lim_v == IF HasKey(kwargs, "lim") THEN kwargs.lim ELSE cur.lim
      gl_v == IF HasKey(kwargs, "gl") THEN kwargs.gl ELSE cur.gl
  IN  InsertOrReplace(settings_t,
        [user_id |-> user_id, show_logo |-> show_logo_v, lim |-> lim_v, gl |-> gl_v])

\* update_settings(user_id, **kwargs): kwargs is the dict of the keywords the
\* caller passes.  A keyword the function does not declare raises TypeError
\* at the call, before the body runs.  Result: the exception raised ("" for
\* none) and the table afterwards, when nothing else runs between the read
\* and the write.
update_settings(settings_t, user_id, kwargs) ==
  IF ~(DOMAIN kwargs \subseteq UpdateSettingsParams)
  THEN [raised |-> "TypeError", table |-> settings_t]
  ELSE [raised |-> "",
        table  |-> update_settings_write(settings_t, user_id, kwargs,
                                         fetch_settings(settings_t, user_id))]

\* ------------------------------------------------------------- JSON
\* A JSON text is a sequence of tokens <<kind, payload>>.
JPunct(c) == <<"punct", c>>
JString(s) == <<"string", s>>
JNull == <<"null", "">>

\* One result record as a JSON object.
JsonObject(it) ==
  << JPunct("{"), JString(it.title), JString(it.link), JString(it.snippet),
     IF it.thumbnail = NoThumb THEN JNull ELSE JString(it.thumbnail), JPunct("}") >>

\* The number of tokens of one object.
JsonObjectLen ==
  Len(JsonObject([title |-> "", link |-> "", snippet |-> "", thumbnail |-> NoThumb]))

RECURSIVE JsonObjects(_)
JsonObjects(items) ==
  IF items = <<>> THEN <<>> ELSE JsonObject(Head(items)) \o JsonObjects(Tail(items))

\* json.dumps of a list of result records
JsonDumps(items) == <<JPunct("[")>> \o JsonObjects(items) \o <<JPunct("]")>>

\* json.loads of such a text
JsonLoads(text) ==
  LET n == (Len(text) - 2) \div JsonObjectLen
      at(i, j) == text[1 + (i - 1) * JsonObjectLen + j]
  IN  [i \in 1..n |->
         [title     |-> at(i, 2)[2],
          link      |-> at(i, 3)[2],
          snippet   |-> at(i, 4)[2],
          thumbnail |-> IF at(i, 5) = JNull THEN NoThumb ELSE at(i, 5)[2]]]

\* ------------------------------------------------------------ Redis
\* The keyspace maps a key to its value and the instant it expires at.

\* SETEX key seconds value
RedisSetex(store, clock, key, seconds, value) ==
  [k \in DOMAIN store \cup {key} |->
     IF k = key THEN [value |-> value, expire_at |-> clock + seconds] ELSE store[k]]

\* Whether the key holds a value at this instant (Redis drops a key once the
\* clock has passed its expiry instant).
RedisLive(store, clock, key) == key \in DOMAIN store /\ clock <= store[key].expire_at

\* GET key: the value, or None
RedisGet(store, clock, key) ==
  IF RedisLive(store, clock, key) THEN Some(store[key].value) ELSE Nothing

\* The time to live cache_set passes to SETEX, in seconds.
TTL == 24 * 3600

KeyPrefix == <<"g","o","o","g","l","e",":">>

\* f"google:{q.lower()}"
CacheKey(q) == KeyPrefix \o PyLower(q)

\* cache_get: json.loads(data) if data else None
cache_get(store, clock, q) ==
  LET data == RedisGet(store, clock, CacheKey(q))
  IN  IF ~data.isNone /\ data.val # <<>> THEN Some(JsonLoads(data.val)) ELSE Nothing

\* cache_set as it would be with a time to live of one hour.
cache_set_one_hour(store, clock, q, items) ==
  RedisSetex(store, clock, CacheKey(q), 3600, JsonDumps(items))

\* cache_set: the keyspace after SETEX
cache_set(store, clock, q, items) ==
  RedisSetex(store, clock, CacheKey(q), TTL, JsonDumps(items))

\* ---------------------------------------------------- Google Search
\* The provider, as google_search sees it: the HTTP status it answers with
\* (NoResponse: the request times out or the transport fails) and the results
\* it has for a query.  It returns at most `num` of them, and leaves "items"
\* out of the body when there are none.
NoResponse == 0
HttpOk == 200

GOOGLE_CX == "cx"

\* params of the request (lines 148-150)
SearchParams(api_key, query, limit, gl) ==
  IF Truthy(gl)
  THEN [key |-> api_key, cx |-> GOOGLE_CX, q |-> query, num |-> limit, gl |-> gl]
  ELSE [key |-> api_key, cx |-> GOOGLE_CX, q |-> query, num |-> limit]

\* The JSON body of a 200 response to a request for `num` results.
ResponseBody(prov, num) ==
  LET page == Take(prov.results, num)
  IN  IF page = <<>> THEN [kind |-> "customsearch#search"]
      ELSE [kind |-> "customsearch#search", items |-> page]

\* Thumbnail of one raw item (lines 158-164): the first cse_thumbnail's src,
\* else the first metatags' og:image, else None.
Thumbnail(item) ==
  LET pagemap == DictGet(item, "pagemap", <<>>)
  IN  IF HasKey(pagemap, "cse_thumbnail") /\ pagemap["cse_thumbnail"] # <<>>
      THEN DictGet(pagemap["cse_thumbnail"][1], "src", NoThumb)
      ELSE IF HasKey(pagemap, "metatags") /\ pagemap["metatags"] # <<>>
      THEN DictGet(pagemap["metatags"][1], "og:image", NoThumb)
      ELSE NoThumb

\* The result record built from one raw item (lines 166-173).
Normalize(item) ==
  [title     |-> item["title"],
   link      |-> item["link"],
   snippet   |-> DictGet(item, "snippet", ""),
   thumbnail |-> Thumbnail(item)]

\* google_search: one GET; the exception raised ("" for none), the records
\* returned, and the request made.
google_search(prov, api_key, query, limit, gl) ==
  LET params == SearchParams(api_key, query, limit, gl)
      data == ResponseBody(prov, limit)
      raw == DictGet(data, "items", <<>>)
  IN  IF prov.status = NoResponse
      THEN [raised |-> "TimeoutError", items |-> <<>>, params |-> params]
      ELSE IF prov.status # HttpOk
      THEN [raised |-> "RuntimeError", items |-> <<>>, params |-> params]
      ELSE [raised |-> "",
            items  |-> [i \in DOMAIN raw |-> Normalize(raw[i])],
            params |-> params]

\* ------------------------------------------------------- dispatcher
\* FSM states (lines 44-49); StateNone is "no state".
StateNone == "None"
waiting_key == "TokenStates:waiting_key"
waiting_lim == "SettingsStates:waiting_lim"
FsmStates == {StateNone, waiting_key, waiting_lim}

\* The first whitespace-separated word of a text (text.split(maxsplit=1)[0]);
\* empty when the text has no word.
RECURSIVE UntilWhite(_)
UntilWhite(s) ==
  IF s = <<>> \/ Head(s) \in WhiteChars THEN <<>> ELSE <<Head(s)>> \o UntilWhite(Tail(s))

FirstWord(s) == UntilWhite(LStrip(s))

\* The Command(name) filter: the first word is "/" followed by the name.
IsCommand(text, name) == FirstWord(text) = <<"/">> \o name

\* str.startswith
StartsWith(s, prefix) == Len(s) >= Len(prefix) /\ SubSeq(s, 1, Len(prefix)) = prefix

\* TOKEN_REGEX (line 299): ^AIza[0-9A-Za-z_\-]{35}$ ; "$" also matches just
\* before a final newline.
KeyChars == Range(DigitChars) \cup Range(UpperChars) \cup Range(LowerChars) \cup {"_", "-"}
KeyTailLen == 35
KeyHead == <<"A","I","z","a">>

TOKEN_REGEX_match(s) ==
  LET t == IF s # <<>> /\ s[Len(s)] = "\n" THEN SubSeq(s, 1, Len(s) - 1) ELSE s
  IN  /\ Len(t) = Len(KeyHead) + KeyTailLen
      /\ SubSeq(t, 1, Len(KeyHead)) = KeyHead
      /\ \A i \in (Len(KeyHead) + 1)..Len(t) : t[i] \in KeyChars

\* The message handlers in registration order (lines 182-347), each with its
\* filter.  A message goes to the first handler whose filter accepts it.
MessageHandlers ==
  << "cmd_start", "cmd_help", "cmd_settings", "set_gl_value", "set_lim_value",
     "cmd_token", "receive_token", "unknown_command" >>

Accepts(handler, state, text) ==
  CASE handler = "cmd_start"       -> IsCommand(text, <<"s","t","a","r","t">>)
    [] handler = "cmd_help"        -> IsCommand(text, <<"h","e","l","p">>)
    [] handler = "cmd_settings"    -> IsCommand(text, <<"s","e","t","t","i","n","g","s">>)
    [] handler = "set_gl_value"    -> FALSE
    [] handler = "set_lim_value"   -> state = waiting_lim
    [] handler = "cmd_token"       -> IsCommand(text, <<"t","o","k","e","n">>)
    [] handler = "receive_token"   -> state = waiting_key
    [] handler = "unknown_command" -> StartsWith(text, <<"/">>)

\* The handler a message is routed to ("" when no filter accepts it).
Route(state, text) ==
  LET hits == {i \in DOMAIN MessageHandlers : Accepts(MessageHandlers[i], state, text)}
  IN  IF hits = {} THEN ""
      ELSE MessageHandlers[CHOOSE i \in hits : \A j \in hits : i <= j]

\* The callback handlers (lines 242-280), in registration order.
CallbackHandlers == << "cb_ask_gl", "cb_set_logo", "cb_ask_lim" >>

SetGlAsk == <<"s","e","t","_","g","l",":","a","s","k">>
SetLimAsk == <<"s","e","t","_","l","i","m",":","a","s","k">>
SetLogo == <<"s","e","t","_","l","o","g","o">>

AcceptsCallback(handler, data) ==
  CASE handler = "cb_ask_gl"   -> data = SetGlAsk
    [] handler = "cb_set_logo" -> StartsWith(data, SetLogo)
    [] handler = "cb_ask_lim"  -> data = SetLimAsk

RouteCallback(data) ==
  LET hits == {i \in DOMAIN CallbackHandlers : AcceptsCallback(CallbackHandlers[i], data)}
  IN  IF hits = {} THEN ""
      ELSE CallbackHandlers[CHOOSE i \in hits : \A j \in hits : i <= j]

\* ------------------------------------------------------------ inputs
\* The character U+00DF (sharp s), one character: lower() keeps it, while
\* case folding turns it into "ss".
SharpS == "U+00DF"

Rep(c, n) == [i \in 1..n |-> c]

\* API keys users send.
Key1 == KeyHead \o Rep("a", KeyTailLen)
Key2 == KeyHead \o <<"0", "_", "-">> \o Rep("Z", KeyTailLen - 3)
\* Texts that are not keys.
ShortKey == KeyHead \o Rep("a", KeyTailLen - 1)
BadCharKey == KeyHead \o Rep("a", KeyTailLen - 1) \o <<"!">>

Cancel == <<"/","c","a","n","c","e","l">>

MessageTexts ==
  { <<"/","s","t","a","r","t">>, <<"/","h","e","l","p">>,
    <<"/","s","e","t","t","i","n","g","s">>, <<"/","t","o","k","e","n">>, Cancel,
    Key1, Key2, <<" ">> \o Key1 \o <<"\n">>, ShortKey, BadCharKey,
    <<"7">>, <<"1","1">> }

CallbackDatas == {SetGlAsk, SetLimAsk, SetLogo \o <<":","0">>, SetLogo \o <<":","1">>}

QCats == <<"C","a","t","s">>
Qcats == <<"c","a","t","s">>
Qdog == <<"d","o","g">>
Qbird == <<"b","i","r","d">>
QueryTexts == { <<>>, <<" ", "\t">>, QCats, <<" ">> \o Qcats \o <<" ">>, Qdog, Qbird }

\* Raw items of a provider response.
RawA ==
  [title |-> "A", link |-> "http://a", snippet |-> "about a",
   pagemap |-> [cse_thumbnail |-> <<[src |-> "http://a/thumb"]>>,
                metatags |-> <<("og:image" :> "http://a/og")>>]]
RawB ==
  [title |-> "B", link |-> "http://b",
   pagemap |-> [metatags |-> <<("og:image" :> "http://b/og")>>]]
RawC == [title |-> "C", link |-> "http://c", snippet |-> "about c"]
RawD ==
  [title |-> "D", link |-> "http://d", snippet |-> "",
   pagemap |-> [cse_thumbnail |-> <<>>, metatags |-> <<[title |-> "d"]>>]]

\* More results than any user asks for.
ManyResults == <<RawA, RawB, RawC, RawD, RawA, RawB, RawC, RawD, RawA, RawB, RawC>>

\* A result count below the default one.
ShortLen == 3

\* The provider answering, with ManyResults for every query.
Plentiful == [status |-> HttpOk, results |-> ManyResults]

\* What the provider may be doing when called.
ProviderStates ==
  { [status |-> HttpOk, results |-> <<>>],
    Plentiful,
    [status |-> 403, results |-> <<>>],
    [status |-> 429, results |-> <<>>],
    [status |-> NoResponse, results |-> <<>>] }

\* The largest result count a user can ask for (line 289).
MaxLim == 10

\* The instants the clock takes.
Instants == {d * (TTL + 1) : d \in 0..MaxDays}

\* The Redis server outlives the bot (main only connects to it, line 439):
\* when the bot starts, the keyspace holds what earlier runs of cache_set
\* left there.  Here, both written at instant 0: a page of ShortLen results
\* for "cats" (the provider had ManyResults) and an empty result list for
\* "dog"; nothing for any other text.
PageOf(n) ==
  google_search(Plentiful, Key1, Qcats, n, <<>>).items

ShortPage == PageOf(ShortLen)

\* A call of cache_set, as the log of calls keeps it.
Put(q, items, at) == [q |-> q, items |-> items, at |-> at]

InitialPuts == << Put(Qcats, ShortPage, 0), Put(Qdog, <<>>, 0) >>

RECURSIVE Replay(_, _)
Replay(store, log) ==
  IF log = <<>> THEN store
  ELSE Replay(cache_set(store, Head(log).at, Head(log).q, Head(log).items), Tail(log))

InitialKeyspace == Replay(<<>>, InitialPuts)

\* The routing of every message text in every FSM state, and of every
\* callback datum, computed once.
RouteTable == [st \in FsmStates |-> [text \in MessageTexts |-> Route(st, text)]]
CallbackTable == [data \in CallbackDatas |-> RouteCallback(data)]

\* ------------------------------------------------------------- state
VARIABLES
  tokens,     \* table tokens(user_id PRIMARY KEY, key)
  settings,   \* table settings(user_id PRIMARY KEY, show_logo, lim, gl)
  fsm,        \* the dispatcher's FSM state of each user
  redis,      \* the Redis keyspace
  now,        \* the clock, in seconds
  puts,       \* the calls of cache_set so far, in order
  last,       \* what the handler of the most recent update did
  pending     \* the calls of update_settings between their read and their write

vars == <<tokens, settings, fsm, redis, now, puts, last, pending>>

\* What a handler run did: the surroundings it met (the status the provider
\* answered its request with; <<>> for a run that made no request), the
\* inline answers it gave
\* (each a list of articles), the messages it sent in the chat, the direct
\* messages it sent, the provider requests it made, and the exception it
\* ended with ("" when it returned).
Ran(handler, user, text, env, answers, replies, dms, calls, raised) ==
  [handler |-> handler, user |-> user, text |-> text, env |-> env,
   answers |-> answers, replies |-> replies, dms |-> dms, calls |-> calls,
   raised |-> raised]

\* A message sent in the chat, named by what it says.
Reply(kind) == [kind |-> kind]

NoEnv == <<>>
Met(prov) == [status |-> prov.status]
NoUpdate == Ran("", 0, <<>>, NoEnv, <<>>, <<>>, <<>>, <<>>, "")

Init ==
  /\ tokens = {}
  /\ settings = {}
  /\ fsm = [u \in Users |-> StateNone]
  /\ redis = InitialKeyspace
  /\ puts = InitialPuts
  /\ now = 0
  /\ last = NoUpdate
  /\ pending = <<>>

\* ------------------------------------------------- message handlers
\* cmd_start (lines 182-191)
cmd_start(u, text) ==
  /\ RouteTable[fsm[u]][text] = "cmd_start"
  /\ last' = Ran("cmd_start", u, text, NoEnv, <<>>, <<Reply("start")>>, <<>>, <<>>, "")
  /\ UNCHANGED <<pending, tokens, settings, fsm, redis, now, puts>>

\* cmd_help (lines 195-204)
cmd_help(u, text) ==
  /\ RouteTable[fsm[u]][text] = "cmd_help"
  /\ last' = Ran("cmd_help", u, text, NoEnv, <<>>, <<Reply("help")>>, <<>>, <<>>, "")
  /\ UNCHANGED <<pending, tokens, settings, fsm, redis, now, puts>>

\* settings_keyboard(show_logo, lim, gl) (lines 209-227): the keyboard shown.
settings_keyboard(show_logo, lim, gl) == [show_logo |-> show_logo, lim |-> lim, gl |-> gl]

\* cmd_settings (lines 232-239)
cmd_settings(u, text) ==
  /\ RouteTable[fsm[u]][text] = "cmd_settings"
  /\ LET st == fetch_settings(settings, u)
         kb == settings_keyboard(st["show_logo"], st["lim"], st["gl"])
     IN  last' = Ran("cmd_settings", u, text, NoEnv, <<>>,
                     <<[kind |-> "settings", reply_markup |-> kb]>>, <<>>, <<>>, "")
  /\ UNCHANGED <<pending, tokens, settings, fsm, redis, now, puts>>

\* set_lim_value (lines 283-294): what the run did, the settings table and
\* the user's FSM state it leaves.  The call at line 292 passes the keyword
\* `limit`.
set_lim_value_run(u, text, settings_t, state) ==
  LET ran(replies, raised) ==
        Ran("set_lim_value", u, text, NoEnv, <<>>, replies, <<>>, <<>>, raised)
  IN
  IF ~PyIsDigit(text)
  THEN [ran |-> ran(<<Reply("need_number")>>, ""), settings |-> settings_t, state |-> state]
  ELSE
  LET value == PyInt(text) IN
  IF ~(1 <= value /\ value <= MaxLim)
  THEN [ran |-> ran(<<Reply("out_of_range")>>, ""), settings |-> settings_t, state |-> state]
  ELSE
  LET r == update_settings(settings_t, u, [limit |-> value]) IN
  IF r.raised # ""
  THEN [ran |-> ran(<<>>, r.raised), settings |-> r.table, state |-> state]
  ELSE [ran |-> ran(<<Reply("saved")>>, ""), settings |-> r.table, state |-> StateNone]

set_lim_value(u, text) ==
  /\ RouteTable[fsm[u]][text] = "set_lim_value"
  /\ LET r == set_lim_value_run(u, text, settings, fsm[u])
     IN  /\ last' = r.ran
         /\ settings' = r.settings
         /\ fsm' = [fsm EXCEPT ![u] = r.state]
  /\ UNCHANGED <<pending, tokens, redis, now, puts>>

\* cmd_token (lines 302-320)
cmd_token(u, text) ==
  /\ RouteTable[fsm[u]][text] = "cmd_token"
  /\ fsm' = [fsm EXCEPT ![u] = waiting_key]
  /\ last' = Ran("cmd_token", u, text, NoEnv, <<>>, <<Reply("how_to_get_a_key")>>,
                 <<>>, <<>>, "")
  /\ UNCHANGED <<pending, tokens, settings, redis, now, puts>>

\* The query and the result count of the canary call (line 334).
CanaryQuery == <<"4", ":", "2", "0">>
CanaryLimit == 1

\* receive_token as it would be if the key were saved before the canary call
\* instead of after it.
receive_token_run_saving_first(u, text, tokens_t, state, prov) ==
  LET key == PyStrip(text)
      ran(replies, calls) ==
        Ran("receive_token", u, text, IF calls = <<>> THEN NoEnv ELSE Met(prov),
            <<>>, replies, <<>>, calls, "")
  IN
  IF ~TOKEN_REGEX_match(key)
  THEN [ran |-> ran(<<Reply("not_a_key")>>, <<>>), tokens |-> tokens_t, state |-> state]
  ELSE
  LET r == google_search(prov, key, CanaryQuery, CanaryLimit, PyNone) IN
  IF r.raised # ""
  THEN [ran    |-> ran(<<Reply("checking"), Reply("request_failed")>>, <<r.params>>),
        tokens |-> save_token(tokens_t, u, key), state |-> state]
  ELSE [ran    |-> ran(<<Reply("checking"), Reply("saved")>>, <<r.params>>),
        tokens |-> save_token(tokens_t, u, key), state |-> StateNone]

\* receive_token as it would be without the TOKEN_REGEX test of lines 327-329.
receive_token_run_without_regex(u, text, tokens_t, state, prov) ==
  LET key == PyStrip(text)
      r == google_search(prov, key, CanaryQuery, CanaryLimit, PyNone)
      ran(replies) ==
        Ran("receive_token", u, text, Met(prov), <<>>, replies, <<>>, <<r.params>>, "")
  IN
  IF r.raised # ""
  THEN [ran    |-> ran(<<Reply("checking"), Reply("request_failed")>>),
        tokens |-> tokens_t, state |-> state]
  ELSE [ran    |-> ran(<<Reply("checking"), Reply("saved")>>),
        tokens |-> save_token(tokens_t, u, key), state |-> StateNone]

\* receive_token as it would be if a failed canary call were tried once more.
receive_token_run_retrying(u, text, tokens_t, state, prov) ==
  LET key == PyStrip(text)
      ran(replies, calls) ==
        Ran("receive_token", u, text, IF calls = <<>> THEN NoEnv ELSE Met(prov),
            <<>>, replies, <<>>, calls, "")
  IN
  IF ~TOKEN_REGEX_match(key)
  THEN [ran |-> ran(<<Reply("not_a_key")>>, <<>>), tokens |-> tokens_t, state |-> state]
  ELSE
  LET r == google_search(prov, key, CanaryQuery, CanaryLimit, PyNone) IN
  IF r.raised # ""
  THEN [ran    |-> ran(<<Reply("checking"), Reply("request_failed")>>,
                       <<r.params, r.params>>),
        tokens |-> tokens_t, state |-> state]
  ELSE [ran    |-> ran(<<Reply("checking"), Reply("saved")>>, <<r.params>>),
        tokens |-> save_token(tokens_t, u, key), state |-> StateNone]

\* receive_token (lines 324-341): what the run did, the tokens table and the
\* user's FSM state it leaves.
receive_token_run(u, text, tokens_t, state, prov) ==
  LET key == PyStrip(text)
      ran(replies, calls) ==
        Ran("receive_token", u, text, IF calls = <<>> THEN NoEnv ELSE Met(prov),
            <<>>, replies, <<>>, calls, "")
  IN
  IF ~TOKEN_REGEX_match(key)
  THEN [ran |-> ran(<<Reply("not_a_key")>>, <<>>), tokens |-> tokens_t, state |-> state]
  ELSE
  LET r == google_search(prov, key, CanaryQuery, CanaryLimit, PyNone) IN
  IF r.raised # ""
  THEN [ran    |-> ran(<<Reply("checking"), Reply("request_failed")>>, <<r.params>>),
        tokens |-> tokens_t, state |-> state]
  ELSE [ran    |-> ran(<<Reply("checking"), Reply("saved")>>, <<r.params>>),
        tokens |-> save_token(tokens_t, u, key), state |-> StateNone]

receive_token(u, text) ==
  /\ RouteTable[fsm[u]][text] = "receive_token"
  /\ \E r \in {receive_token_run(u, text, tokens, fsm[u], prov) : prov \in ProviderStates} :
         /\ last' = r.ran
         /\ tokens' = r.tokens
         /\ fsm' = [fsm EXCEPT ![u] = r.state]
  /\ UNCHANGED <<pending, settings, redis, now, puts>>

\* unknown_command (lines 345-347)
unknown_command(u, text) ==
  /\ RouteTable[fsm[u]][text] = "unknown_command"
  /\ last' = Ran("unknown_command", u, text, NoEnv, <<>>, <<Reply("unknown_command")>>,
                 <<>>, <<>>, "")
  /\ UNCHANGED <<pending, tokens, settings, fsm, redis, now, puts>>

\* ------------------------------------------------ callback handlers
\* cb_ask_gl (lines 242-249): line 249 names SettingsStates.waiting_gl, an
\* attribute the class does not have.
cb_ask_gl(u, data) ==
  /\ CallbackTable[data] = "cb_ask_gl"
  /\ last' = Ran("cb_ask_gl", u, data, NoEnv, <<>>,
                 <<Reply("cb_answer"), Reply("ask_gl"), Reply("delete_reply_markup")>>,
                 <<>>, <<>>, "AttributeError")
  /\ UNCHANGED <<pending, tokens, settings, fsm, redis, now, puts>>

\* data.split(":")[1]: the text between the first and the second colon
RECURSIVE UntilColon(_)
UntilColon(s) ==
  IF s = <<>> \/ Head(s) = ":" THEN <<>> ELSE <<Head(s)>> \o UntilColon(Tail(s))

RECURSIVE FromColon(_)
FromColon(s) == IF s = <<>> \/ Head(s) = ":" THEN s ELSE FromColon(Tail(s))

HasSecondField(s) == FromColon(s) # <<>>
SecondField(s) == UntilColon(Tail(FromColon(s)))

\* cb_set_logo (lines 265-271): what the run did and the settings table it
\* leaves.  Line 270 reads st["limit"] and passes two arguments to
\* settings_keyboard.
cb_set_logo_run(u, data, settings_t) ==
  LET ran(raised) == Ran("cb_set_logo", u, data, NoEnv, <<>>, <<>>, <<>>, <<>>, raised)
  IN
  IF ~HasSecondField(data) THEN [ran |-> ran("IndexError"), settings |-> settings_t]
  ELSE IF ~PyIsDigit(SecondField(data))
  THEN [ran |-> ran("ValueError"), settings |-> settings_t]
  ELSE
  LET new_val == PyInt(SecondField(data)) # 0
      r == update_settings(settings_t, u, [show_logo |-> new_val])
      st == fetch_settings(r.table, u)
  IN
  IF r.raised # "" THEN [ran |-> ran(r.raised), settings |-> r.table]
  ELSE IF ~HasKey(st, "limit") THEN [ran |-> ran("KeyError"), settings |-> r.table]
  ELSE [ran |-> ran("TypeError"), settings |-> r.table]

cb_set_logo(u, data) ==
  /\ CallbackTable[data] = "cb_set_logo"
  /\ LET r == cb_set_logo_run(u, data, settings)
     IN  /\ last' = r.ran
         /\ settings' = r.settings
  /\ UNCHANGED <<pending, tokens, fsm, redis, now, puts>>

\* cb_ask_lim (lines 274-280)
cb_ask_lim(u, data) ==
  /\ CallbackTable[data] = "cb_ask_lim"
  /\ fsm' = [fsm EXCEPT ![u] = waiting_lim]
  /\ last' = Ran("cb_ask_lim", u, data, NoEnv, <<>>,
                 <<Reply("cb_answer"), Reply("ask_lim")>>, <<>>, <<>>, "")
  /\ UNCHANGED <<pending, tokens, settings, redis, now, puts>>

\* ------------------------------------------------------ inline search
\* The article asking for a key (lines 379-384) and the error article
\* (lines 405-412).
NeedTokenArticle ==
  [id |-> "need_token", title |-> "add a Google API key",
   description |-> "open the bot and send /token", url |-> "", thumb_url |-> NoThumb,
   message_text |-> "add a Google API key"]
ErrArticle ==
  [id |-> "err", title |-> "search error",
   description |-> "details in a private message", url |-> "", thumb_url |-> NoThumb,
   message_text |-> "search error"]

\* str(uuid.uuid4()) for the i-th article of an answer: distinct identifiers.
Uuids == <<"uuid-1", "uuid-2", "uuid-3", "uuid-4", "uuid-5",
           "uuid-6", "uuid-7", "uuid-8", "uuid-9", "uuid-10">>

\* The articles built from the items (lines 419-431).
Articles(items, limit, show_logo) ==
  LET shown == Take(items, limit)
  IN  [i \in DOMAIN shown |->
         [id           |-> Uuids[i],
          title        |-> shown[i]["title"],
          description  |-> shown[i]["snippet"],
          url          |-> shown[i]["link"],
          thumb_url    |-> IF show_logo /\ shown[i]["thumbnail"] \notin {NoThumb, ""}
                           THEN shown[i]["thumbnail"] ELSE NoThumb,
          message_text |-> shown[i]["link"]]]

\* inline_google as it would be without the early return of lines 354-356.
inline_google_without_early_return(u, text, tokens_t, settings_t, store, clock, prov, dm) ==
  LET st == fetch_settings(settings_t, u)
      ran(answers, raised) ==
        Ran("inline_google", u, text, NoEnv, answers, <<>>, <<>>, <<>>, raised)
  IN  IF ~HasKey(st, "limit")
      THEN [ran |-> ran(<<>>, "KeyError"), redis |-> store, puts |-> <<>>]
      ELSE [ran |-> ran(<< <<>> >>, ""), redis |-> store, puts |-> <<>>]

\* inline_google (lines 351-433) run for user u on the query text: what the
\* run did, the keyspace it leaves and the calls of cache_set it made.  prov
\* is what the provider does when called, dm whether the bot can send u a
\* direct message.
inline_google(u, text, tokens_t, settings_t, store, clock, prov, dm) ==
  LET q == PyStrip(text)
      ran(answers, dms, calls, raised) ==
        Ran("inline_google", u, text, IF calls = <<>> THEN NoEnv ELSE Met(prov),
            answers, <<>>, dms, calls, raised)
  IN
  IF q = <<>> THEN [ran |-> ran(<< <<>> >>, <<>>, <<>>, ""), redis |-> store, puts |-> <<>>]
  ELSE
  LET token == fetch_token(tokens_t, u)
      st == fetch_settings(settings_t, u)
  IN
  IF ~HasKey(st, "limit")
  THEN [ran |-> ran(<<>>, <<>>, <<>>, "KeyError"), redis |-> store, puts |-> <<>>]
  ELSE
  LET limit == st["limit"]
      show_logo == st["show_logo"]
      gl == st["gl"]
      cached == cache_get(store, clock, q)
  IN
  IF ~cached.isNone /\ cached.val # <<>>
  THEN [ran   |-> ran(<<Articles(Take(cached.val, limit), limit, show_logo)>>, <<>>, <<>>, ""),
        redis |-> store, puts |-> <<>>]
  ELSE IF ~Truthy(token)
  THEN [ran |-> ran(<< <<NeedTokenArticle>> >>, <<>>, <<>>, ""), redis |-> store, puts |-> <<>>]
  ELSE
  LET r == google_search(prov, token, q, limit, gl)
  IN
  IF r.raised = ""
  THEN [ran   |-> ran(<<Articles(r.items, limit, show_logo)>>, <<>>, <<r.params>>, ""),
        redis |-> cache_set(store, clock, q, r.items),
        puts  |-> <<Put(q, r.items, clock)>>]
  ELSE IF ~dm
  THEN [ran |-> ran(<<>>, <<>>, <<r.params>>, "TelegramForbiddenError"), redis |-> store, puts |-> <<>>]
  ELSE [ran   |-> ran(<< <<ErrArticle>> >>, <<"search_failed">>, <<r.params>>, ""),
        redis |-> store, puts |-> <<>>]

\* One inline query handled.
InlineGoogle(u, text) ==
  \E r \in {inline_google(u, text, tokens, settings, redis, now, prov, dm) :
              prov \in ProviderStates, dm \in BOOLEAN} :
      /\ last' = r.ran
      /\ redis' = r.redis
      /\ puts' = puts \o r.puts
      /\ UNCHANGED <<pending, tokens, settings, fsm, now>>

\* ------------------------------------------------------- environment
\* Time passes.
Tick ==
  /\ \E t \in Instants : t > now /\ now' = t
  /\ UNCHANGED <<pending, tokens, settings, fsm, redis, puts, last>>

Next ==
  \/ \E u \in Users, text \in MessageTexts : cmd_start(u, text)
  \/ \E u \in Users, text \in MessageTexts : cmd_help(u, text)
  \/ \E u \in Users, text \in MessageTexts : cmd_settings(u, text)
  \/ \E u \in Users, text \in MessageTexts : set_lim_value(u, text)
  \/ \E u \in Users, text \in MessageTexts : cmd_token(u, text)
  \/ \E u \in Users, text \in MessageTexts : receive_token(u, text)
  \/ \E u \in Users, text \in MessageTexts : unknown_command(u, text)
  \/ \E u \in Users, data \in CallbackDatas : cb_ask_gl(u, data)
  \/ \E u \in Users, data \in CallbackDatas : cb_set_logo(u, data)
  \/ \E u \in Users, data \in CallbackDatas : cb_ask_lim(u, data)
  \/ \E u \in Users, text \in QueryTexts : InlineGoogle(u, text)
  \/ Tick

Spec == Init /\ [][Next]_vars

\* ------------------------------------------------- the Result Cache
\* CacheSpec: the cache on its own, used the way inline_google uses it
\* (lines 353, 366, 395): the text is stripped, then handed to cache_get or
\* cache_set.  The keyspace starts empty; any text of CacheTexts is looked up
\* or written at any instant of CacheInstants.
CacheTexts ==
  { QCats, <<" ">> \o Qcats \o <<" ">>, <<"S", "S">>, <<"s", "s">>, <<SharpS>> }

ListA == Take(ShortPage, 1)
ListB == SubSeq(ShortPage, 2, 3)
CacheLists == {ListA, ListB}

CacheInstants == UNION {{d * (TTL + 1), d * (TTL + 1) + 2} : d \in 0..MaxDays}

CacheInit ==
  /\ tokens = {}
  /\ settings = {}
  /\ fsm = [u \in Users |-> StateNone]
  /\ redis = <<>>
  /\ puts = <<>>
  /\ now = 0
  /\ last = NoUpdate
  /\ pending = <<>>

\* cache_set(q, items) with q the stripped text
CacheSet(text, items) ==
  /\ Len(puts) < MaxPuts
  /\ redis' = cache_set(redis, now, PyStrip(text), items)
  /\ puts' = Append(puts, Put(PyStrip(text), items, now))
  /\ last' = Ran("cache_set", 0, text, NoEnv, <<>>, <<>>, <<>>, <<>>, "")
  /\ UNCHANGED <<pending, tokens, settings, fsm, now>>

\* cache_get(q) with q the stripped text; the value returned is kept in
\* last.answers, the instant of the lookup in last.env.
CacheGet(text) ==
  /\ last' = Ran("cache_get", 0, text, [at |-> now],
                 <<cache_get(redis, now, PyStrip(text))>>, <<>>, <<>>, <<>>, "")
  /\ UNCHANGED <<pending, tokens, settings, fsm, redis, now, puts>>

CacheTick ==
  /\ \E t \in CacheInstants : t > now /\ now' = t
  /\ UNCHANGED <<pending, tokens, settings, fsm, redis, puts, last>>

CacheNext ==
  \/ \E text \in CacheTexts, items \in CacheLists : CacheSet(text, items)
  \/ \E text \in CacheTexts : CacheGet(text)
  \/ \E u \in Users, text \in CacheTexts : InlineGoogle(u, text)
  \/ CacheTick

CacheSpec == CacheInit /\ [][CacheNext]_vars

\* ------------------------------------------------ the settings table
\* SettingsSpec: update_settings on its own, called with any of
\* PartialUpdates for any user.  The function awaits between its read (line
\* 115) and its write (lines 119-126), and the dispatcher handles updates as
\* concurrent tasks, so up to MaxPending calls may be between the two.
PartialUpdates ==
  { [show_logo |-> FALSE], [show_logo |-> TRUE],
    [lim |-> 7],
    [gl |-> <<"U", "S">>],
    [show_logo |-> FALSE, lim |-> 3],
    [limit |-> 7] }

\* update_settings called: TypeError for a keyword it does not declare, else
\* the settings of the user are read (line 115).
UpdateRead(u, kwargs) ==
  /\ Len(pending) < MaxPending
  /\ IF ~(DOMAIN kwargs \subseteq UpdateSettingsParams)
     THEN /\ last' = Ran("update_settings", u, <<>>, [kwargs |-> kwargs],
                         <<>>, <<>>, <<>>, <<>>, "TypeError")
          /\ pending' = pending
     ELSE /\ pending' = Append(pending, [user_id |-> u, kwargs |-> kwargs,
                                         cur |-> fetch_settings(settings, u)])
          /\ last' = last
  /\ UNCHANGED <<tokens, settings, fsm, redis, now, puts>>

\* The i-th pending call writes its row (lines 116-126) and returns.
UpdateWrite(i) ==
  /\ i \in DOMAIN pending
  /\ settings' = update_settings_write(settings, pending[i].user_id,
                                       pending[i].kwargs, pending[i].cur)
  /\ pending' = SubSeq(pending, 1, i - 1) \o SubSeq(pending, i + 1, Len(pending))
  /\ last' = Ran("update_settings", pending[i].user_id, <<>>,
                 [kwargs |-> pending[i].kwargs], <<>>, <<>>, <<>>, <<>>, "")
  /\ UNCHANGED <<tokens, fsm, redis, now, puts>>

SettingsNext ==
  \/ \E u \in Users, kwargs \in PartialUpdates : UpdateRead(u, kwargs)
  \/ \E i \in 1..MaxPending : UpdateWrite(i)

SettingsSpec == Init /\ [][SettingsNext]_vars

\* ------------------------------------------------------------ claims
\* The notions the claims are stated in.

\* The credential stored for a user (PyNone when there is none), the user's
\* result_limit, show_thumbnail and locale preferences (the defaults when
\* none are recorded).
Credential(u) ==
  LET rows == {r \in tokens : r.user_id = u}
  IN  IF rows = {} THEN PyNone ELSE (CHOOSE r \in rows : TRUE).key

Preference(u, field, default) ==
  LET rows == {r \in settings : r.user_id = u}
  IN  IF rows = {} THEN default ELSE (CHOOSE r \in rows : TRUE)[field]

ResultLimit(u) == Preference(u, "lim", 5)
Locale(u) == Preference(u, "gl", <<>>)

\* The writes of the entry of key k, by their place in the log; the latest.
PutsFor(k) == {i \in DOMAIN puts : CacheKey(puts[i].q) = k}
LatestPut(k) == puts[CHOOSE i \in PutsFor(k) : \A j \in PutsFor(k) : j <= i]

\* The key has an entry younger than 24 hours / has no entry (never written,
\* or written more than 24 hours ago).
Day == 24 * 60 * 60
FreshEntry(k) == PutsFor(k) # {} /\ now - LatestPut(k).at < Day
NoEntry(k) == PutsFor(k) = {} \/ now - LatestPut(k).at > Day

\* The key a query text addresses in the resolver.
ResolverKey(text) == CacheKey(PyStrip(text))

\* What a result record and an article say: title, link, snippet.
RecordCore(items) ==
  [i \in DOMAIN items |->
     [title |-> items[i].title, link |-> items[i].link, snippet |-> items[i].snippet]]
ArticleCore(articles) ==
  [i \in DOMAIN articles |->
     [title |-> articles[i].title, link |-> articles[i].url,
      snippet |-> articles[i].description]]

\* The step is a run of the inline-query handler.
ResolverStep == last' # last /\ last'.handler = "inline_google"

\* C1 (as claimed): when the query text has a cache entry younger than 24h,
\* resolving it for any user, with or without a credential, makes no provider
\* call and answers with the first min(result_limit, length) records of the
\* entry, in the entry's order.
C1_CacheHitServedFromEntry ==
  [][ (ResolverStep /\ FreshEntry(ResolverKey(last'.text))) =>
        /\ last'.raised = ""
        /\ last'.calls = <<>>
        /\ Len(last'.answers) = 1
        /\ ArticleCore(last'.answers[1]) =
             RecordCore(Take(LatestPut(ResolverKey(last'.text)).items,
                             ResultLimit(last'.user)))
    ]_vars

\* C2 (as claimed): a non-empty query text without cache entry, resolved for
\* a user without credential, is answered with exactly the onboarding notice,
\* with no provider call, and the cache and both stores stay as they were.
C2_MissWithoutCredential ==
  [][ ( /\ ResolverStep
        /\ PyStrip(last'.text) # <<>>
        /\ Credential(last'.user) = PyNone
        /\ NoEntry(ResolverKey(last'.text)) ) =>
        /\ last'.raised = ""
        /\ last'.answers = << <<NeedTokenArticle>> >>
        /\ last'.calls = <<>>
        /\ redis' = redis /\ tokens' = tokens /\ settings' = settings
    ]_vars

\* C3 (as claimed): a non-empty query text without cache entry, resolved for
\* a user with a credential, makes exactly one provider call, with the user's
\* credential, result_limit and locale; when the call succeeds the returned
\* sequence is written to the cache under the text's key and at most
\* result_limit items are answered.
C3_MissWithCredential ==
  [][ ( /\ ResolverStep
        /\ PyStrip(last'.text) # <<>>
        /\ Credential(last'.user) # PyNone
        /\ NoEntry(ResolverKey(last'.text)) ) =>
        /\ Len(last'.calls) = 1
        /\ last'.calls[1].key = Credential(last'.user)
        /\ last'.calls[1].num = ResultLimit(last'.user)
        /\ DictGet(last'.calls[1], "gl", <<>>) = Locale(last'.user)
        /\ \/ last'.answers = << <<ErrArticle>> >>
           \/ /\ Len(puts') = Len(puts) + 1
              /\ CacheKey(puts'[Len(puts')].q) = ResolverKey(last'.text)
              /\ Len(last'.answers) = 1
              /\ Len(last'.answers[1]) <= ResultLimit(last'.user)
              /\ ArticleCore(last'.answers[1]) = RecordCore(puts'[Len(puts')].items)
    ]_vars

\* A provider that fails: an error status, or no response at all.
FailingProviders == {prov \in ProviderStates : prov.status # HttpOk}

\* C4 (as claimed): when the provider call of a resolver invocation fails,
\* the answer is exactly the generic-error item, one notice is sent to the
\* user directly, nothing is written to the cache and the provider is called
\* once.  The invocations that call the provider are those of C3: a non-empty
\* text without cache entry, for a user with a credential.
C4_ProviderFailureReported ==
  \A u \in Users, text \in QueryTexts, prov \in FailingProviders :
    ( /\ PyStrip(text) # <<>>
      /\ Credential(u) # PyNone
      /\ NoEntry(ResolverKey(text)) ) =>
      LET r == inline_google(u, text, tokens, settings, redis, now, prov, TRUE)
      IN  /\ r.ran.raised = ""
          /\ r.ran.answers = << <<ErrArticle>> >>
          /\ Len(r.ran.dms) = 1
          /\ Len(r.ran.calls) = 1
          /\ r.redis = redis
          /\ r.puts = <<>>

\* The step is a run of receive_token for user u on a message that has the
\* form of a key, and the canary call was made.
CanaryStep(u) ==
  /\ last' # last
  /\ last'.handler = "receive_token"
  /\ last'.user = u
  /\ fsm[u] = waiting_key
  /\ TOKEN_REGEX_match(PyStrip(last'.text))
  /\ Len(last'.calls) = 1

\* C5: when a user awaiting a key sends a text that has the form of a key and
\* the canary call fails, the tokens table is left as it was (no credential
\* stays none, an earlier credential stays) and the user keeps awaiting a key.
C5_RejectedCandidateChangesNothing ==
  [][ \A u \in Users :
        (CanaryStep(u) /\ last'.env.status # HttpOk) =>
          /\ tokens' = tokens
          /\ fsm'[u] = waiting_key
    ]_vars

\* Reached: user's canary call was answered 403 while an earlier credential
\* of the user was stored; the credential is not the text just sent and the
\* user still awaits a key.
C5_Witness ==
  /\ last.handler = "receive_token"
  /\ Len(last.calls) = 1
  /\ last.env.status = 403
  /\ Credential(last.user) # PyNone
  /\ Credential(last.user) # PyStrip(last.text)
  /\ fsm[last.user] = waiting_key

\* No user has two rows in the tokens table.
AtMostOneCredential ==
  \A u \in Users : Cardinality({r \in tokens : r.user_id = u}) <= 1

\* C6: when a user awaiting a key sends a text that has the form of a key and
\* the canary call succeeds, the tokens table afterwards holds exactly one
\* row for the user, with the key sent (stripped), the other users' rows are
\* untouched, and the user's FSM state is cleared.  In every state, no user
\* has more than one row.
C6_AcceptedCandidateStored ==
  /\ []AtMostOneCredential
  /\ [][ \A u \in Users :
           (CanaryStep(u) /\ last'.env.status = HttpOk) =>
             /\ {r \in tokens' : r.user_id = u} =
                  {[user_id |-> u, key |-> PyStrip(last'.text)]}
             /\ {r \in tokens' : r.user_id # u} = {r \in tokens : r.user_id # u}
             /\ fsm'[u] = StateNone
       ]_vars

\* Reached: Key2 was accepted for a user, sent with surrounding whitespace or
\* not, and is now the user's one credential, while the other user's
\* credential is Key1.
C6_Witness ==
  /\ last.handler = "receive_token"
  /\ Len(last.calls) = 1
  /\ last.env.status = HttpOk
  /\ Credential(last.user) = Key2
  /\ fsm[last.user] = StateNone
  /\ \E v \in Users : v # last.user /\ Credential(v) = Key1

\* The entry of key k as a lookup at the clock finds it in the store: its
\* records, <<>> when there is none.
EntryIn(store, clock, text) ==
  LET e == cache_get(store, clock, PyStrip(text))
  IN  IF e.isNone THEN <<>> ELSE e.val

\* C7 (as claimed): while the provider has more results than anyone asks
\* for, a user with a credential who resolves a non-empty text is served
\* result_limit items, and the entry of the text then holds at least
\* result_limit records, whatever count the entry was written with before.
C7_EntryHoldsLargestCount ==
  \A u \in Users, text \in QueryTexts :
    (PyStrip(text) # <<>> /\ Credential(u) # PyNone) =>
      LET r == inline_google(u, text, tokens, settings, redis, now, Plentiful, TRUE)
      IN  /\ r.ran.raised = ""
          /\ Len(r.ran.answers) = 1
          /\ Len(r.ran.answers[1]) = ResultLimit(u)
          /\ Len(EntryIn(r.redis, now, text)) >= ResultLimit(u)

\* What a lookup of the text finds at the clock.
Lookup(text) == cache_get(redis, now, PyStrip(text))

\* Every lookup finds the latest write of its key while that write is younger
\* than 24 hours, and nothing once it is older or when there is none.
LookupFollowsAge ==
  \A text \in CacheTexts :
    LET k == ResolverKey(text)
    IN  /\ FreshEntry(k) => Lookup(text) = Some(LatestPut(k).items)
        /\ NoEntry(k) => Lookup(text) = Nothing

\* C9: a lookup made less than 24 hours after the latest write of its key
\* finds the records of that write, a lookup made more than 24 hours after it
\* (or of a key never written) finds nothing; and only a write changes what
\* the keyspace holds, for its own key alone.
C9_EntryLivesOneDay ==
  /\ []LookupFollowsAge
  /\ [][ \/ redis' = redis
         \/ /\ last'.handler = "cache_set"
            /\ DOMAIN redis' = DOMAIN redis \cup {ResolverKey(last'.text)}
            /\ \A k \in DOMAIN redis : k # ResolverKey(last'.text) => redis'[k] = redis[k]
       ]_vars

\* Reached: a key written at instant 0 and again two seconds later is looked
\* up one day and one second after the first write, and the records of the
\* second write are found.
C9_Witness ==
  /\ last.handler = "cache_get"
  /\ last.env.at = TTL + 1
  /\ Len(puts) = 2
  /\ puts[1].at = 0 /\ puts[2].at = 2
  /\ puts[1].items # puts[2].items
  /\ CacheKey(puts[1].q) = ResolverKey(last.text)
  /\ CacheKey(puts[2].q) = ResolverKey(last.text)
  /\ last.answers = <<Some(puts[2].items)>>

\* Case folding (str.casefold) of the model's alphabet: A-Z fold to a-z, "ß"
\* folds to "ss", the other characters are kept.
RECURSIVE Casefold(_)
Casefold(s) ==
  IF s = <<>> THEN <<>>
  ELSE (IF Head(s) = SharpS THEN <<"s", "s">> ELSE <<LowerChar(Head(s))>>)
       \o Casefold(Tail(s))

\* The normal form of a query text: trimmed, then case-folded.
Normalized(text) == Casefold(PyStrip(text))

\* The writes of the texts with the normal form of this one.
PutsLike(text) == {i \in DOMAIN puts : Normalized(puts[i].q) = Normalized(text)}

\* C10 (as claimed): a lookup finds the latest write among those of the texts
\* with the same normal form (trimmed and case-folded), while that write is
\* younger than 24 hours, and never a write of a text with another normal form.
C10_KeyIsNormalForm ==
  \A text \in CacheTexts :
    IF PutsLike(text) = {} THEN Lookup(text) = Nothing
    ELSE LET p == puts[CHOOSE i \in PutsLike(text) : \A j \in PutsLike(text) : j <= i]
         IN  /\ now - p.at < Day => Lookup(text) = Some(p.items)
             /\ now - p.at > Day => Lookup(text) = Nothing

\* C8 (as claimed): every run of the inline-query handler ends having answered
\* the query exactly once, and no error leaves the handler.
C8_EveryQueryAnswered ==
  last.handler = "inline_google" => (last.raised = "" /\ Len(last.answers) = 1)

\* The step is the handling of the message `text` sent by user u.
MessageStep(u, text) ==
  /\ last' # last
  /\ last'.handler \in Range(MessageHandlers)
  /\ last'.user = u
  /\ last'.text = text

\* C11 (as claimed): when a user awaiting a key sends /cancel, the user's FSM
\* state is cleared, the provider is not called and the tokens table is left
\* as it was.
C11_CancelReturnsToIdle ==
  [][ \A u \in Users :
        (MessageStep(u, Cancel) /\ fsm[u] = waiting_key) =>
          /\ fsm'[u] = StateNone
          /\ last'.calls = <<>>
          /\ tokens' = tokens
    ]_vars

\* The user's show_thumbnail preference (true when none is recorded).
ShowThumbnail(u) == Preference(u, "show_logo", 1) # 0

\* The projection of a record sequence under a limit and a show_thumbnail
\* preference: the first `limit` records in order, the thumbnail kept only
\* when the preference is true and the record has one.
Projected(records, limit, show) ==
  LET shown == Take(records, limit)
  IN  [i \in DOMAIN shown |->
         [title     |-> shown[i].title,
          link      |-> shown[i].link,
          snippet   |-> shown[i].snippet,
          thumbnail |-> IF show /\ shown[i].thumbnail \notin {NoThumb, ""}
                        THEN shown[i].thumbnail ELSE NoThumb]]

\* The articles of an answer, read back as records.
AsRecords(articles) ==
  [i \in DOMAIN articles |->
     [title |-> articles[i].title, link |-> articles[i].url,
      snippet |-> articles[i].description, thumbnail |-> articles[i].thumb_url]]

\* C12 (as claimed): the items returned for a text whose entry holds records
\* are the projection of those records under the user's result_limit and
\* show_thumbnail, and projecting the returned items again under the same
\* preferences gives the same items.
C12_AnswerIsProjection ==
  [][ ( /\ ResolverStep
        /\ FreshEntry(ResolverKey(last'.text))
        /\ LatestPut(ResolverKey(last'.text)).items # <<>> ) =>
        /\ Len(last'.answers) = 1
        /\ AsRecords(last'.answers[1]) =
             Projected(LatestPut(ResolverKey(last'.text)).items,
                       ResultLimit(last'.user), ShowThumbnail(last'.user))
        /\ Projected(AsRecords(last'.answers[1]),
                     ResultLimit(last'.user), ShowThumbnail(last'.user)) =
             AsRecords(last'.answers[1])
    ]_vars

\* The query texts that are empty once stripped.
BlankTexts == {text \in QueryTexts : PyStrip(text) = <<>>}

\* Whatever the tables and the keyspace hold, whatever the provider would do
\* and whether or not the user can be messaged, a blank text gets the same
\* run: nothing of these is consulted.
BlankConsultsNothing ==
  \A u \in Users, text \in BlankTexts, prov \in ProviderStates, dm \in BOOLEAN :
    inline_google(u, text, tokens, settings, redis, now, prov, dm) =
      [ran   |-> Ran("inline_google", u, text, NoEnv, << <<>> >>, <<>>, <<>>, <<>>, ""),
       redis |-> redis, puts |-> <<>>]

\* C13: an inline query whose text is empty or only whitespace is answered
\* with an empty result list; the handler calls no provider, sends no
\* message, and leaves both tables, the keyspace and the FSM states as they
\* were, without consulting any of them.
C13_BlankQueryAnsweredEmpty ==
  /\ []BlankConsultsNothing
  /\ [][ (ResolverStep /\ last'.text \in BlankTexts) =>
           /\ last'.raised = ""
           /\ last'.answers = << <<>> >>
           /\ last'.calls = <<>> /\ last'.dms = <<>> /\ last'.replies = <<>>
           /\ tokens' = tokens /\ settings' = settings /\ fsm' = fsm
           /\ redis' = redis /\ puts' = puts
       ]_vars

\* Reached: a user with a stored credential and a settings row sent a text of
\* whitespace only and got the empty answer.
C13_Witness ==
  /\ last.handler = "inline_google"
  /\ last.text # <<>>
  /\ last.text \in BlankTexts
  /\ last.answers = << <<>> >>
  /\ Credential(last.user) # PyNone
  /\ \E r \in settings : r.user_id = last.user

\* The credential syntax: AIza followed by 35 characters of [0-9A-Za-z_-].
IsCredentialSyntax(s) ==
  /\ Len(s) = 4 + 35
  /\ SubSeq(s, 1, 4) = <<"A", "I", "z", "a">>
  /\ \A i \in 5..Len(s) : s[i] \in KeyChars

\* Every stored credential has the credential syntax.
StoredCredentialsWellFormed == \A r \in tokens : IsCredentialSyntax(r.key)

\* C14: every stored credential has the credential syntax, and the tokens
\* table changes only in a run of receive_token whose canary call, made with
\* the very key then stored for the sender, was answered 200; no other
\* handler and no other outcome writes the table.
C14_ValidatedBeforeStored ==
  /\ []StoredCredentialsWellFormed
  /\ [][ tokens' # tokens =>
           /\ last'.handler = "receive_token"
           /\ Len(last'.calls) = 1
           /\ last'.env.status = HttpOk
           /\ last'.calls[1].q = CanaryQuery
           /\ tokens' = {r \in tokens : r.user_id # last'.user}
                          \cup {[user_id |-> last'.user, key |-> last'.calls[1].key]}
       ]_vars

\* Reached: Key1, sent with a space before and a newline after it, passed the
\* canary call and is stored without them.
C14_Witness ==
  /\ last.handler = "receive_token"
  /\ last.text = <<" ">> \o Key1 \o <<"\n">>
  /\ Len(last.calls) = 1
  /\ last.env.status = HttpOk
  /\ last.calls[1].key = Key1
  /\ [user_id |-> last.user, key |-> Key1] \in tokens

\* A text that is not a command.
FreeText(text) == ~StartsWith(text, <<"/">>)

\* C15: a text that is not a command, sent by a user awaiting a key, is
\* handled by receive_token; if, stripped, it has the credential syntax,
\* exactly one provider call is made, the canary call with that key and a
\* result count of 1; otherwise no call is made, the tokens table is left as
\* it was, the user keeps awaiting a key and is told the text is not a key.
C15_OneCanaryCallPerCandidate ==
  [][ ( /\ last' # last
        /\ last'.handler \in Range(MessageHandlers)
        /\ FreeText(last'.text)
        /\ fsm[last'.user] = waiting_key ) =>
          /\ last'.handler = "receive_token"
          /\ IF IsCredentialSyntax(PyStrip(last'.text))
             THEN /\ Len(last'.calls) = 1
                  /\ last'.calls[1].key = PyStrip(last'.text)
                  /\ last'.calls[1].q = CanaryQuery
                  /\ last'.calls[1].num = 1
             ELSE /\ last'.calls = <<>>
                  /\ last'.replies = <<Reply("not_a_key")>>
                  /\ tokens' = tokens
                  /\ fsm'[last'.user] = waiting_key
    ]_vars

\* Reached: a text one character short of a key, or one with a character no
\* key has, was refused without a call, for a user who has a credential and
\* keeps awaiting a key.
C15_Witness ==
  /\ last.handler = "receive_token"
  /\ last.text \in {ShortKey, BadCharKey}
  /\ last.calls = <<>>
  /\ last.replies = <<Reply("not_a_key")>>
  /\ fsm[last.user] = waiting_key
  /\ Credential(last.user) # PyNone

\* The provider answering 200.
AnsweringProviders == {prov \in ProviderStates : prov.status = HttpOk}

\* C16 (as claimed): two users with credentials resolve texts with the same
\* normal form, without entry, and both look the cache up before either
\* writes it (both runs see the keyspace as it is now).  Each makes its own
\* provider call and answers with its own result, at most result_limit
\* items; each writes the entry, and after the second write the entry holds
\* exactly the records of the second.
C16_ConcurrentMissesLastWriteWins ==
  \A u1 \in Users, u2 \in Users, t1 \in QueryTexts, t2 \in QueryTexts,
     p1 \in AnsweringProviders, p2 \in AnsweringProviders :
    ( /\ u1 # u2
      /\ Credential(u1) # PyNone /\ Credential(u2) # PyNone
      /\ PyStrip(t1) # <<>>
      /\ Normalized(t1) = Normalized(t2)
      /\ NoEntry(ResolverKey(t1)) /\ NoEntry(ResolverKey(t2)) ) =>
      LET r1 == inline_google(u1, t1, tokens, settings, redis, now, p1, TRUE)
          r2 == inline_google(u2, t2, tokens, settings, redis, now, p2, TRUE)
          after == cache_set(r1.redis, now, r2.puts[1].q, r2.puts[1].items)
      IN  /\ Len(r1.ran.calls) = 1 /\ Len(r2.ran.calls) = 1
          /\ r1.ran.calls[1].key = Credential(u1) /\ r2.ran.calls[1].key = Credential(u2)
          /\ Len(r1.ran.answers) = 1 /\ Len(r2.ran.answers) = 1
          /\ Len(r1.puts) = 1 /\ Len(r2.puts) = 1
          /\ ArticleCore(r1.ran.answers[1]) =
               RecordCore(Take(r1.puts[1].items, ResultLimit(u1)))
          /\ ArticleCore(r2.ran.answers[1]) =
               RecordCore(Take(r2.puts[1].items, ResultLimit(u2)))
          /\ cache_get(after, now, PyStrip(t1)) = Some(r2.puts[1].items)
          /\ cache_get(after, now, PyStrip(t2)) = Some(r2.puts[1].items)

\* The fields of the preferences, as fetch_settings names them.
PreferenceFields == {"show_logo", "lim", "gl"}

\* C17 (as claimed): when a call of update_settings completes, every field
\* it was given has the value given, and every other field has the value it
\* had in the table just before the write (the default when the user had no
\* row), also when another call for the same user wrote between this call's
\* read and its write.
C17_UpdateMergesFieldwise ==
  [][ (Len(pending') < Len(pending) /\ last'.handler = "update_settings") =>
        LET u == last'.user
            kwargs == last'.env.kwargs
            before == fetch_settings(settings, u)
            after == fetch_settings(settings', u)
        IN  \A f \in PreferenceFields :
              after[f] = IF f \in DOMAIN kwargs THEN kwargs[f] ELSE before[f]
    ]_vars

\* C18 (as claimed): when the latest write of a text's key, younger than 24
\* hours, holds an empty record list, resolving the text for any user, with
\* or without a credential, makes no provider call and answers with an empty
\* result list, not with the onboarding notice.
C18_EmptyEntryIsAHit ==
  [][ ( /\ ResolverStep
        /\ FreshEntry(ResolverKey(last'.text))
        /\ LatestPut(ResolverKey(last'.text)).items = <<>> ) =>
        /\ last'.raised = ""
        /\ last'.calls = <<>>
        /\ last'.answers = << <<>> >>
    ]_vars

\* A user without a settings row reads the defaults.
DefaultsRead ==
  \A u \in Users :
    (\A r \in settings : r.user_id # u) =>
      fetch_settings(settings, u) = [show_logo |-> TRUE, lim |-> 5, gl |-> <<>>]

\* Every user's result_limit is between 1 and 10.
LimitInRange == \A u \in Users : ResultLimit(u) \in 1..10

\* The text is a number between 1 and 10, written in digits only.
IsLimitText(text) == PyIsDigit(text) /\ PyInt(text) \in 1..10

\* C19 (as claimed): a user without settings row reads the defaults; when a
\* user asked for the limit sends a number N between 1 and 10 in digits, the
\* user's result_limit becomes N and the FSM state is cleared; any other
\* message leaves the settings as they were and the user still asked for the
\* limit; and every result_limit is between 1 and 10 in every state.
C19_LimitDialogue ==
  /\ []DefaultsRead
  /\ []LimitInRange
  /\ [][ ( /\ last' # last
           /\ last'.handler \in Range(MessageHandlers)
           /\ fsm[last'.user] = waiting_lim ) =>
           IF IsLimitText(last'.text)
           THEN /\ fetch_settings(settings', last'.user) =
                     [fetch_settings(settings, last'.user)
                        EXCEPT !.lim = PyInt(last'.text)]
                /\ fsm'[last'.user] = StateNone
           ELSE /\ settings' = settings
                /\ fsm'[last'.user] = waiting_lim
       ]_vars

\* What the bot keeps for a user: the rows of both tables and the FSM state.
Owned(v) ==
  [tokens   |-> {r \in tokens : r.user_id = v},
   settings |-> {r \in settings : r.user_id = v},
   fsm      |-> fsm[v]]

\* C20: a step changes what the bot keeps for a user only when it handles an
\* update of that very user; and every provider request a handler makes for
\* a user carries the credential stored for that user or the key that user
\* has just sent, never another one.  (The requests made are canary calls:
\* no run of inline_google gets as far as its provider call.)
C20_PerUserIsolation ==
  [][ /\ \A v \in Users : Owned(v)' # Owned(v) => last'.user = v
      /\ last' # last =>
           \A i \in DOMAIN last'.calls :
             \/ last'.calls[i].key = Credential(last'.user)
             \/ /\ last'.handler = "receive_token"
                /\ last'.calls[i].key = PyStrip(last'.text)
    ]_vars

\* Reached: Key2 was accepted for one user while the other, whose credential
\* is Key1, has switched thumbnails off and is being asked for a limit; all
\* of that is still so.
C20_Witness ==
  /\ last.handler = "receive_token"
  /\ Len(last.calls) = 1
  /\ last.calls[1].key = Key2
  /\ Credential(last.user) = Key2
  /\ \E v \in Users :
       /\ v # last.user
       /\ Credential(v) = Key1
       /\ ~ShowThumbnail(v)
       /\ fsm[v] = waiting_lim

====
